---- MODULE Spec2Model ----
(***************************************************************************)
(* A model of the eolso/datastore package: Item, Document, Collection and  *)
(* Datastore, with the Open (load) and Close (flush) protocols against a   *)
(* directory tree.                                                         *)
(*                                                                         *)
(* Bytes are sequences of numbers 0..255, file contents are sequences of   *)
(* one-character strings, maps are functions with a finite domain.         *)
(***************************************************************************)
EXTENDS Integers, Sequences, FiniteSets, TLC

VARIABLES
    docs,       \* heap of *Document: sequence of [Name, data]
    colls,      \* heap of *Collection: sequence of [name, documents, collections]
    ds,         \* the Datastore: [collections]
    disk,       \* the filesystem under the datastore path: path -> entry
    res,        \* the last call on document 1: its arguments and what it returned
    lastOp,     \* per key of document 1: the last write to the key
    steps,      \* how many calls and changes to the disk there have been
    exts,       \* how many of them were changes from outside the program
    closed,     \* the last Close call: the tree it flushed and what it returned
    opened,     \* the last Open call: the disk it read and what it returned
    thr,        \* per thread: the call it is in and where in it
    crashed     \* the runtime ended the process on a concurrent map read and write

docVars == <<res, lastOp>>
diskVars == <<steps, exts, closed, opened>>
raceVars == <<thr, crashed>>
vars == <<docs, colls, ds, disk, res, lastOp, steps, exts, closed, opened, thr, crashed>>

----------------------------------------------------------------------------
(* Names, keys and the values the model draws its inputs from.             *)

\* os.ReadDir returns the entries sorted by file name: the order of NameOrder.
NameOrder == <<"a", "b">>
Names == {NameOrder[i] : i \in 1..Len(NameOrder)}

\* threadsafe.Map[K, V]: a finite function; the zero map is the empty function.
EmptyMap == [x \in {} |-> x]
MapGet(m, k) == IF k \in DOMAIN m THEN [ok |-> TRUE, val |-> m[k]]
                ELSE [ok |-> FALSE, val |-> 0]
MapSet(m, k, v) == [x \in (DOMAIN m) \cup {k} |-> IF x = k THEN v ELSE m[x]]
MapDelete(m, k) == [x \in (DOMAIN m) \ {k} |-> m[x]]
MapLen(m) == Cardinality(DOMAIN m)

\* All the orders in which a range over a Go map with these keys may run.
Orders(S) == {s \in [1..Cardinality(S) -> S] : \A i, j \in DOMAIN s : i # j => s[i] # s[j]}

----------------------------------------------------------------------------
(* encoding/base64, StdEncoding: the alphabet with '=' padding.            *)

B64Alphabet ==
    <<"A","B","C","D","E","F","G","H","I","J","K","L","M","N","O","P",
      "Q","R","S","T","U","V","W","X","Y","Z","a","b","c","d","e","f",
      "g","h","i","j","k","l","m","n","o","p","q","r","s","t","u","v",
      "w","x","y","z","0","1","2","3","4","5","6","7","8","9","+","/">>

B64Char(sextet) == B64Alphabet[sextet + 1]
B64IsChar(c) == \E i \in 1..64 : B64Alphabet[i] = c
B64Val(c) == (CHOOSE i \in 1..64 : B64Alphabet[i] = c) - 1

RECURSIVE B64Encode(_)
B64Encode(b) ==
    IF Len(b) = 0 THEN <<>>
    ELSE IF Len(b) = 1 THEN
        <<B64Char(b[1] \div 4), B64Char((b[1] % 4) * 16), "=", "=">>
    ELSE IF Len(b) = 2 THEN
        <<B64Char(b[1] \div 4), B64Char((b[1] % 4) * 16 + (b[2] \div 16)),
          B64Char((b[2] % 16) * 4), "=">>
    ELSE
        <<B64Char(b[1] \div 4), B64Char((b[1] % 4) * 16 + (b[2] \div 16)),
          B64Char((b[2] % 16) * 4 + (b[3] \div 64)), B64Char(b[3] % 64)>>
        \o B64Encode(SubSeq(b, 4, Len(b)))

\* Decoding of a text without line breaks: [ok, bytes].
RECURSIVE B64DecodeQuads(_)
B64DecodeQuads(s) ==
    IF Len(s) = 0 THEN [ok |-> TRUE, bytes |-> <<>>]
    ELSE IF Len(s) < 4 \/ ~B64IsChar(s[1]) \/ ~B64IsChar(s[2])
        THEN [ok |-> FALSE, bytes |-> <<>>]
    ELSE LET v1 == B64Val(s[1])
             v2 == B64Val(s[2])
             b1 == v1 * 4 + (v2 \div 16)
         IN  IF s[3] = "=" THEN
                 IF s[4] = "=" /\ Len(s) = 4
                 THEN [ok |-> TRUE, bytes |-> <<b1>>]
                 ELSE [ok |-> FALSE, bytes |-> <<>>]
             ELSE IF ~B64IsChar(s[3]) THEN [ok |-> FALSE, bytes |-> <<>>]
             ELSE LET v3 == B64Val(s[3])
                      b2 == (v2 % 16) * 16 + (v3 \div 4)
                  IN  IF s[4] = "=" THEN
                          IF Len(s) = 4
                          THEN [ok |-> TRUE, bytes |-> <<b1, b2>>]
                          ELSE [ok |-> FALSE, bytes |-> <<>>]
                      ELSE IF ~B64IsChar(s[4]) THEN [ok |-> FALSE, bytes |-> <<>>]
                      ELSE LET b3 == (v3 % 4) * 64 + B64Val(s[4])
                               rest == B64DecodeQuads(SubSeq(s, 5, Len(s)))
                           IN  IF rest.ok
                               THEN [ok |-> TRUE, bytes |-> <<b1, b2, b3>> \o rest.bytes]
                               ELSE rest

\* base64.StdEncoding.DecodeString: line breaks are skipped.
IsLineBreak(c) == c \in {"\n", "\r"}
NotLineBreak(c) == ~IsLineBreak(c)
B64Decode(s) == B64DecodeQuads(SelectSeq(s, NotLineBreak))

----------------------------------------------------------------------------
(* encoding/gob for top-level values of the basic types.  A value is a     *)
(* record of its type and, in a field named after the type, its content:   *)
(* an int, a uint, a bool, a string (its bytes), or a func, which gob      *)
(* cannot encode.                                                          *)

IntVal(n) == [type |-> "int", int |-> n]
UintVal(n) == [type |-> "uint", uint |-> n]
BoolVal(b) == [type |-> "bool", bool |-> b]
StringVal(s) == [type |-> "string", string |-> s]
FuncVal == [type |-> "func"]
NoValue == [type |-> "none"]

GobTypeId(t) == CASE t = "bool" -> 1 [] t = "int" -> 2 [] t = "uint" -> 3
                  [] t = "string" -> 6 [] OTHER -> 0

RECURSIVE BigEndian(_)
BigEndian(x) == IF x < 256 THEN <<x>> ELSE BigEndian(x \div 256) \o <<x % 256>>

\* An unsigned integer: one byte below 128, else the negated byte count and
\* the bytes, most significant first.
GobUint(x) == IF x < 128 THEN <<x>>
              ELSE LET be == BigEndian(x) IN <<256 - Len(be)>> \o be

\* A signed integer: bit 0 says whether the rest is complemented.
GobInt(i) == IF i < 0 THEN GobUint((-i - 1) * 2 + 1) ELSE GobUint(i * 2)

GobValue(v) ==
    CASE v.type = "bool" -> GobUint(IF v.bool THEN 1 ELSE 0)
      [] v.type = "int" -> GobInt(v.int)
      [] v.type = "uint" -> GobUint(v.uint)
      [] v.type = "string" -> GobUint(Len(v.string)) \o v.string

\* gob.Encoder.Encode of one value on a fresh stream: the byte count, the
\* type id, the zero field delta of a singleton, the value.
GobEncode(v) ==
    IF GobTypeId(v.type) = 0 THEN [ok |-> FALSE, bytes |-> <<>>]
    ELSE LET body == GobInt(GobTypeId(v.type)) \o <<0>> \o GobValue(v)
         IN  [ok |-> TRUE, bytes |-> GobUint(Len(body)) \o body]

RECURSIVE FromBigEndian(_)
FromBigEndian(b) == IF Len(b) = 0 THEN 0
                    ELSE FromBigEndian(SubSeq(b, 1, Len(b) - 1)) * 256 + b[Len(b)]

\* Reads one unsigned integer off the front of b: [ok, val, rest].
GobReadUint(b) ==
    IF Len(b) = 0 THEN [ok |-> FALSE, val |-> 0, rest |-> <<>>]
    ELSE IF b[1] < 128 THEN [ok |-> TRUE, val |-> b[1], rest |-> Tail(b)]
    ELSE LET n == 256 - b[1]
         IN  IF n > 8 \/ Len(b) < 1 + n
             THEN [ok |-> FALSE, val |-> 0, rest |-> <<>>]
             ELSE [ok |-> TRUE, val |-> FromBigEndian(SubSeq(b, 2, 1 + n)),
                   rest |-> SubSeq(b, 2 + n, Len(b))]

GobReadInt(b) ==
    LET u == GobReadUint(b)
    IN  IF ~u.ok THEN u
        ELSE [u EXCEPT !.val = IF u.val % 2 = 1 THEN -(u.val \div 2) - 1
                                ELSE u.val \div 2]

\* gob.Decoder.Decode of the bytes into a pointer to a value of type t:
\* [ok, val].  Anything that is not one well-formed message of a basic type
\* compatible with t is an error.
GobDecode(b, t) ==
    LET bad == [ok |-> FALSE, val |-> NoValue]
        len == GobReadUint(b)
    IN  IF ~len.ok \/ len.val = 0 \/ Len(len.rest) < len.val THEN bad
        ELSE LET msg == SubSeq(len.rest, 1, len.val)
                 id == GobReadInt(msg)
             IN  IF ~id.ok \/ id.val # GobTypeId(t) \/ GobTypeId(t) = 0 THEN bad
                 ELSE LET delta == GobReadUint(id.rest)
                      IN  IF ~delta.ok \/ delta.val # 0 THEN bad
                          ELSE LET u == GobReadUint(delta.rest)
                                   i == GobReadInt(delta.rest)
                               IN  CASE t = "bool" ->
                                          IF u.ok THEN [ok |-> TRUE, val |-> BoolVal(u.val # 0)] ELSE bad
                                     [] t = "int" ->
                                          IF i.ok THEN [ok |-> TRUE, val |-> IntVal(i.val)] ELSE bad
                                     [] t = "uint" ->
                                          IF u.ok THEN [ok |-> TRUE, val |-> UintVal(u.val)] ELSE bad
                                     [] t = "string" ->
                                          IF u.ok /\ Len(u.rest) >= u.val
                                          THEN [ok |-> TRUE, val |-> StringVal(SubSeq(u.rest, 1, u.val))]
                                          ELSE bad

----------------------------------------------------------------------------
(* Item and Document (document.go).                                        *)

ZeroItem == [Key |-> "", Value |-> <<>>]

\* A Decode target: the untyped nil, a non-pointer value, a nil pointer, or
\* a pointer to a variable of the type.
TargetKinds == {"nil", "nonptr", "nilptr", "ptr"}
Ptr(t) == [kind |-> "ptr", type |-> t]

\* Item.Decode with the emptiness test put before the test of the target.
ItemDecodeEmptyFirst(i, target) ==
    IF Len(i.Value) = 0 THEN [err |-> "EmptyItem", out |-> NoValue]
    ELSE IF target.kind # "ptr" THEN [err |-> "InvalidDecode", out |-> NoValue]
    ELSE LET g == GobDecode(i.Value, target.type)
         IN  IF g.ok THEN [err |-> "nil", out |-> g.val]
             ELSE [err |-> "gob", out |-> NoValue]

\* Item.Decode: the error returned and the value the target holds afterwards
\* (NoValue when nothing was written through it).
ItemDecode(i, target) ==
    IF target.kind # "ptr" THEN [err |-> "InvalidDecode", out |-> NoValue]
    ELSE IF Len(i.Value) = 0 THEN [err |-> "EmptyItem", out |-> NoValue]
    ELSE LET g == GobDecode(i.Value, target.type)
         IN  IF g.ok THEN [err |-> "nil", out |-> g.val]
             ELSE [err |-> "gob", out |-> NoValue]

NewDocument(name) == [Name |-> name, data |-> EmptyMap]

\* Document.Get that fills in the key of the Item and leaves out its bytes.
DocGetKeyOnly(d, key) ==
    LET r == MapGet(d.data, key)
    IN  IF ~r.ok THEN ZeroItem ELSE [Key |-> key, Value |-> <<>>]

DocGet(d, key) ==
    LET r == MapGet(d.data, key)
    IN  IF ~r.ok THEN ZeroItem ELSE [Key |-> key, Value |-> r.val]

\* Document.GetAll: make([]Item, Len) followed by one append per entry, in
\* the order the range over the map happens to run.
DocGetAll(d, order) ==
    [i \in 1..MapLen(d.data) |-> ZeroItem]
    \o [i \in 1..Len(order) |-> [Key |-> order[i], Value |-> d.data[order[i]]]]

DocRawSet(d, key, b) == [d EXCEPT !.data = MapSet(d.data, key, b)]

\* Document.Set that stores the bytes under the document's name.
DocSetUnderName(d, key, value) ==
    LET e == GobEncode(value)
    IN  IF ~e.ok THEN [doc |-> d, err |-> "encode"]
        ELSE [doc |-> DocRawSet(d, d.Name, e.bytes), err |-> "nil"]

\* The body of the loop that reads a document's files (Open, lines 100-112):
\* the file's text is base64-decoded and stored under the file's name; a text
\* that does not decode ends the load with the error.
DocLoadFile(d, name, text) ==
    LET r == B64Decode(text)
    IN  IF ~r.ok THEN [doc |-> d, err |-> "base64"]
        ELSE [doc |-> DocRawSet(d, name, r.bytes), err |-> "nil"]

DocSet(d, key, value) ==
    LET e == GobEncode(value)
    IN  IF ~e.ok THEN [doc |-> d, err |-> "encode"]
        ELSE [doc |-> DocRawSet(d, key, e.bytes), err |-> "nil"]

DocDelete(d, key) == [d EXCEPT !.data = MapDelete(d.data, key)]

\* var v V: the zero value of a basic type.
ZeroOf(t) ==
    CASE t = "int" -> IntVal(0)
      [] t = "uint" -> UintVal(0)
      [] t = "bool" -> BoolVal(FALSE)
      [] t = "string" -> StringVal(<<>>)

\* GetWithDefault[V](doc, key, def), def the value that def() returns and V
\* its type: that value when Decode returns EmptyItem, else v as Decode
\* left it.
GetWithDefault(d, key, def) ==
    LET r == ItemDecode(DocGet(d, key), Ptr(def.type))
    IN  IF r.err = "EmptyItem" THEN def
        ELSE IF r.err = "nil" THEN r.out
        ELSE ZeroOf(def.type)

\* GetSetWithDefault[V](doc, key, def), lines 107-108: Get and Decode.  When
\* Decode returns EmptyItem the call goes on to def() and Set (empty),
\* else it returns v as Decode left it and Decode's error.
GetSetWithDefaultGet(d, key, def) ==
    LET r == ItemDecode(DocGet(d, key), Ptr(def.type))
    IN  [empty |-> r.err = "EmptyItem",
         v |-> IF r.err = "nil" THEN r.out ELSE ZeroOf(def.type),
         err |-> r.err]

\* GetSetWithDefault, lines 108-112: v = def(), err = doc.Set(key, v), on the
\* Document as it is by then.  The Document afterwards, the value and the
\* error returned.
GetSetWithDefaultSet(d, key, def) ==
    LET s == DocSet(d, key, def)
    IN  [doc |-> s.doc, v |-> def, err |-> s.err]

\* Collection and Datastore constructors.
newCollection(name) == [name |-> name, documents |-> EmptyMap, collections |-> EmptyMap]
NewDatastore == [collections |-> EmptyMap]

----------------------------------------------------------------------------
(* The program's objects: st = [ds, colls, docs] is the Datastore and the  *)
(* heaps of Collections and Documents it points into; a *Collection or a   *)
(* *Document is an index of its heap, nil is 0.                            *)

EmptyState == [ds |-> NewDatastore, colls |-> <<>>, docs |-> <<>>]

\* Collection.Document that makes a new Document on every call.
CollDocumentAlwaysNew(st, c, name) ==
    LET id == Len(st.docs) + 1
    IN  [st |-> [st EXCEPT !.docs = Append(@, NewDocument(name)),
                           !.colls[c].documents = MapSet(@, name, id)],
         id |-> id]

\* Collection.Document: the document registered under the name, or a new
\* one registered under it.
CollDocument(st, c, name) ==
    LET r == MapGet(st.colls[c].documents, name)
        id == Len(st.docs) + 1
    IN  IF r.ok THEN [st |-> st, id |-> r.val]
        ELSE [st |-> [st EXCEPT !.docs = Append(@, NewDocument(name)),
                                !.colls[c].documents = MapSet(@, name, id)],
              id |-> id]

\* Collection.Collection
CollCollection(st, c, name) ==
    LET r == MapGet(st.colls[c].collections, name)
        id == Len(st.colls) + 1
    IN  IF r.ok THEN [st |-> st, id |-> r.val]
        ELSE [st |-> [st EXCEPT !.colls = [Append(@, newCollection(name))
                                            EXCEPT ![c].collections = MapSet(@, name, id)]],
              id |-> id]

\* Datastore.Collection
DSCollection(st, name) ==
    LET r == MapGet(st.ds.collections, name)
        id == Len(st.colls) + 1
    IN  IF r.ok THEN [st |-> st, id |-> r.val]
        ELSE [st |-> [st EXCEPT !.colls = Append(@, newCollection(name)),
                                !.ds.collections = MapSet(@, name, id)],
              id |-> id]

\* Collection.DeleteCollection
CollDeleteCollection(st, c, key) ==
    [st EXCEPT !.colls[c].collections = MapDelete(@, key)]

\* Collection.Get: the Document registered under the key, and whether there
\* is one.
CollGet(st, c, key) == MapGet(st.colls[c].documents, key)

\* Collection.Set that registers whatever it is handed.
CollSetUnchecked(st, c, key, document) ==
    [st |-> [st EXCEPT !.colls[c].documents = MapSet(@, key, document)], err |-> "nil"]

\* Collection.Set: document 0 is nil.
CollSet(st, c, key, document) ==
    IF document = 0 THEN [st |-> st, err |-> "nil document"]
    ELSE [st |-> [st EXCEPT !.colls[c].documents = MapSet(@, key, document)], err |-> "nil"]

\* Collection.Delete that removes the subcollection of that name as well.
CollDeleteBoth(st, c, key) ==
    [st EXCEPT !.colls[c].documents = MapDelete(@, key),
               !.colls[c].collections = MapDelete(@, key)]

\* Collection.Delete
CollDelete(st, c, key) ==
    [st EXCEPT !.colls[c].documents = MapDelete(@, key)]

----------------------------------------------------------------------------
(* The filesystem under the datastore's path.  A path is the sequence of   *)
(* names below the datastore's directory, <<>> that directory itself; the  *)
(* filesystem maps the paths that exist to a directory or to a file and    *)
(* its text.                                                               *)

Dir == [kind |-> "dir"]
File(text) == [kind |-> "file", text |-> text]
IsDir(fs, p) == p \in DOMAIN fs /\ fs[p].kind = "dir"
IsFile(fs, p) == p \in DOMAIN fs /\ fs[p].kind = "file"
Prefixes(p) == {SubSeq(p, 1, n) : n \in 0..Len(p)}
Parent(p) == SubSeq(p, 1, Len(p) - 1)
Base(p) == p[Len(p)]

\* os.MkdirAll: fails on a component that is a file, else the directory and
\* every missing parent exist afterwards.
MkdirAll(fs, p) ==
    IF \E q \in Prefixes(p) : IsFile(fs, q) THEN [fs |-> fs, err |-> "notdir"]
    ELSE [fs |-> [q \in (DOMAIN fs) \cup Prefixes(p) |->
                     IF q \in DOMAIN fs THEN fs[q] ELSE Dir],
          err |-> "nil"]

\* os.WriteFile: creates the file or replaces its text; fails when the
\* parent is no directory or the path is a directory.
WriteFile(fs, p, text) ==
    IF Len(p) = 0 \/ ~IsDir(fs, Parent(p)) THEN [fs |-> fs, err |-> "notdir"]
    ELSE IF IsDir(fs, p) THEN [fs |-> fs, err |-> "isdir"]
    ELSE [fs |-> [q \in (DOMAIN fs) \cup {p} |-> IF q = p THEN File(text) ELSE fs[q]],
          err |-> "nil"]

\* os.ReadDir of a directory: the names of its entries, sorted.
RECURSIVE SortedFrom(_, _)
SortedFrom(S, i) ==
    IF i > Len(NameOrder) THEN <<>>
    ELSE (IF NameOrder[i] \in S THEN <<NameOrder[i]>> ELSE <<>>) \o SortedFrom(S, i + 1)
ReadDir(fs, p) == SortedFrom({n \in Names : Append(p, n) \in DOMAIN fs}, 1)

----------------------------------------------------------------------------
(* Open (part_000, lines 42-143).                                          *)

\* The files loop made to empty the Document when a file fails.
RECURSIVE LoadDocumentRollback(_, _, _, _, _, _)
LoadDocumentRollback(st, fs, document, path, entries, i) ==
    IF i > Len(entries) THEN [st |-> st, err |-> "nil"]
    ELSE LET r == DocLoadFile(st.docs[document], entries[i], fs[Append(path, entries[i])].text)
         IN  IF r.err # "nil"
             THEN [st |-> [st EXCEPT !.docs[document] = NewDocument(@.Name)], err |-> r.err]
             ELSE LoadDocumentRollback([st EXCEPT !.docs[document] = r.doc],
                                       fs, document, path, entries, i + 1)

\* Lines 100-112: the files of a document's directory, read in order until
\* one fails.
RECURSIVE LoadDocument(_, _, _, _, _, _)
LoadDocument(st, fs, document, path, entries, i) ==
    IF i > Len(entries) THEN [st |-> st, err |-> "nil"]
    ELSE LET r == DocLoadFile(st.docs[document], entries[i], fs[Append(path, entries[i])].text)
         IN  IF r.err # "nil" THEN [st |-> st, err |-> r.err]
             ELSE LoadDocument([st EXCEPT !.docs[document] = r.doc],
                               fs, document, path, entries, i + 1)

RECURSIVE traverseCollection(_, _, _, _, _)

\* Lines 115-121: the loop's body returns, so only the first entry is
\* traversed.
TraverseEntries(st, fs, collection, path, entries) ==
    LET c == CollCollection(st, collection, entries[1])
    IN  traverseCollection(c.st, fs, c.id, collection, Append(path, entries[1]))

\* Lines 67-125.  previousCollection is 0 for nil.
traverseCollection(st, fs, collection, previousCollection, path) ==
    LET pathEntries == ReadDir(fs, path)
        isDocument == \E i \in 1..Len(pathEntries) : IsFile(fs, Append(path, pathEntries[i]))
        isCollection == \E i \in 1..Len(pathEntries) : IsDir(fs, Append(path, pathEntries[i]))
    IN  IF ~IsDir(fs, path) THEN [st |-> st, err |-> "notdir"]
        ELSE IF isDocument /\ isCollection THEN [st |-> st, err |-> "InvalidPath"]
        ELSE IF isDocument THEN
            IF previousCollection = 0 THEN [st |-> st, err |-> "InvalidPath"]
            ELSE LET d == CollDocument(CollDeleteCollection(st, previousCollection, Base(path)),
                                       previousCollection, Base(path))
                 IN  LoadDocument(d.st, fs, d.id, path, pathEntries, 1)
        ELSE IF isCollection THEN TraverseEntries(st, fs, collection, path, pathEntries)
        ELSE [st |-> st, err |-> "nil"]

\* The loop over the datastore's directory made to pass over plain files.
RECURSIVE OpenEntriesSkippingFiles(_, _, _, _)
OpenEntriesSkippingFiles(st, fs, entries, i) ==
    IF i > Len(entries) THEN [st |-> st, err |-> "nil"]
    ELSE IF ~IsDir(fs, <<entries[i]>>) THEN OpenEntriesSkippingFiles(st, fs, entries, i + 1)
    ELSE LET c == DSCollection(st, entries[i])
             r == traverseCollection(c.st, fs, c.id, 0, <<entries[i]>>)
         IN  IF r.err # "nil" THEN r
             ELSE OpenEntriesSkippingFiles(r.st, fs, entries, i + 1)

\* Lines 127-140: the entries of the datastore's directory.
RECURSIVE OpenEntries(_, _, _, _)
OpenEntries(st, fs, entries, i) ==
    IF i > Len(entries) THEN [st |-> st, err |-> "nil"]
    ELSE IF ~IsDir(fs, <<entries[i]>>) THEN [st |-> st, err |-> "InvalidPath"]
    ELSE LET c == DSCollection(st, entries[i])
             r == traverseCollection(c.st, fs, c.id, 0, <<entries[i]>>)
         IN  IF r.err # "nil" THEN r
             ELSE OpenEntries(r.st, fs, entries, i + 1)

\* Open made to return the empty Datastore for an absent path without
\* making the directory.
OpenWithoutMkdir(fs) ==
    IF <<>> \notin DOMAIN fs THEN [st |-> EmptyState, err |-> "nil", fs |-> fs]
    ELSE IF ~IsDir(fs, <<>>) THEN [st |-> EmptyState, err |-> "InvalidPath", fs |-> fs]
    ELSE LET r == OpenEntries(EmptyState, fs, ReadDir(fs, <<>>), 1)
         IN  [st |-> r.st, err |-> r.err, fs |-> fs]

\* Open: the Datastore returned (with the objects it points to), the error,
\* and the filesystem afterwards.
Open(fs) ==
    IF <<>> \notin DOMAIN fs THEN
        LET m == MkdirAll(fs, <<>>) IN [st |-> EmptyState, err |-> m.err, fs |-> m.fs]
    ELSE IF ~IsDir(fs, <<>>) THEN [st |-> EmptyState, err |-> "InvalidPath", fs |-> fs]
    ELSE LET r == OpenEntries(EmptyState, fs, ReadDir(fs, <<>>), 1)
         IN  [st |-> r.st, err |-> r.err, fs |-> fs]

----------------------------------------------------------------------------
(* Close (part_000, lines 146-190).  Every range over a Go map runs in an  *)
(* order of its own that the program does not control, so a call has a set *)
(* of outcomes [fs, err]: one for each way its ranges may run.  A loop is  *)
(* given the names its range has still to visit.                           *)

\* The fields loop made to leave in the document's directory only the files
\* of the document's fields.
RECURSIVE FlushFieldsPruning(_, _, _, _)
FlushFieldsPruning(fs, data, documentPath, todo) ==
    IF todo = {}
    THEN {[fs |-> [q \in {q \in DOMAIN fs :
                             ~(/\ Len(q) = Len(documentPath) + 1
                               /\ Parent(q) = documentPath
                               /\ fs[q].kind = "file"
                               /\ Base(q) \notin DOMAIN data)} |-> fs[q]],
           err |-> "nil"]}
    ELSE UNION {LET w == WriteFile(fs, Append(documentPath, file), B64Encode(data[file]))
                IN  IF w.err # "nil" THEN {w}
                    ELSE FlushFieldsPruning(w.fs, data, documentPath, todo \ {file}) :
                file \in todo}

\* Lines 165-169: one file per field, holding the base64 text of its bytes.
RECURSIVE FlushFields(_, _, _, _)
FlushFields(fs, data, documentPath, todo) ==
    IF todo = {} THEN {[fs |-> fs, err |-> "nil"]}
    ELSE UNION {LET w == WriteFile(fs, Append(documentPath, file), B64Encode(data[file]))
                IN  IF w.err # "nil" THEN {w}
                    ELSE FlushFields(w.fs, data, documentPath, todo \ {file}) :
                file \in todo}

\* Lines 160-170: one directory per document.
RECURSIVE FlushDocuments(_, _, _, _, _)
FlushDocuments(st, fs, c, collectionPath, todo) ==
    IF todo = {} THEN {[fs |-> fs, err |-> "nil"]}
    ELSE UNION {LET documentPath == Append(collectionPath, documentName)
                    data == st.docs[st.colls[c].documents[documentName]].data
                    m == MkdirAll(fs, documentPath)
                IN  IF m.err # "nil" THEN {m}
                    ELSE UNION {IF f.err # "nil" THEN {f}
                                ELSE FlushDocuments(st, f.fs, c, collectionPath,
                                                    todo \ {documentName}) :
                                f \in FlushFields(m.fs, data, documentPath, DOMAIN data)} :
                documentName \in todo}

\* Lines 152-180.
RECURSIVE flushCollection(_, _, _, _)
RECURSIVE FlushCollections(_, _, _, _, _)

\* The collections loop made to flush a nested Collection under its own name
\* alone, not under the path of the Collection that holds it.
RECURSIVE FlushCollectionsFlat(_, _, _, _, _)
FlushCollectionsFlat(st, fs, c, name, todo) ==
    IF todo = {} THEN {[fs |-> fs, err |-> "nil"]}
    ELSE UNION {UNION {IF r.err # "nil" THEN {r}
                       ELSE FlushCollectionsFlat(st, r.fs, c, name, todo \ {collectionName}) :
                       r \in flushCollection(st, fs, <<collectionName>>,
                                             st.colls[c].collections[collectionName])} :
                collectionName \in todo}

\* Lines 173-177: the Collections of the Collection, each under the path of
\* the Collection that holds it.
FlushCollections(st, fs, c, name, todo) ==
    IF todo = {} THEN {[fs |-> fs, err |-> "nil"]}
    ELSE UNION {UNION {IF r.err # "nil" THEN {r}
                       ELSE FlushCollections(st, r.fs, c, name, todo \ {collectionName}) :
                       r \in flushCollection(st, fs, Append(name, collectionName),
                                             st.colls[c].collections[collectionName])} :
                collectionName \in todo}

flushCollection(st, fs, name, c) ==
    LET m == MkdirAll(fs, name)
    IN  IF m.err # "nil" THEN {m}
        ELSE UNION {IF d.err # "nil" THEN {d}
                    ELSE FlushCollections(st, d.fs, c, name, DOMAIN st.colls[c].collections) :
                    d \in FlushDocuments(st, m.fs, c, name, DOMAIN st.colls[c].documents)}

\* Lines 183-187: the top-level Collections.
RECURSIVE CloseCollections(_, _, _)
CloseCollections(st, fs, todo) ==
    IF todo = {} THEN {[fs |-> fs, err |-> "nil"]}
    ELSE UNION {UNION {IF r.err # "nil" THEN {r}
                       ELSE CloseCollections(st, r.fs, todo \ {collectionName}) :
                       r \in flushCollection(st, fs, <<collectionName>>,
                                             st.ds.collections[collectionName])} :
                collectionName \in todo}

\* Datastore.Close: the filesystems and errors that the call may leave.
Close(st, fs) == CloseCollections(st, fs, DOMAIN st.ds.collections)

----------------------------------------------------------------------------
(* The calls on one document: document 1 of the heap.                      *)

Keys == Names

\* The values handed to Set, the bytes handed to RawSet, the Decode targets.
Values == {IntVal(0), IntVal(30), IntVal(-65), IntVal(300), UintVal(200),
           BoolVal(TRUE), BoolVal(FALSE), StringVal(<<104, 105>>), FuncVal}
RawBytes == {<<>>, <<1>>, <<3, 4, 0, 60>>}
Targets == {[kind |-> k, type |-> t] : k \in TargetKinds, t \in {"int", "string"}}

\* What a file of the datastore may hold: nothing, the base64 text of a
\* byte, one that is no base64 text.
FileTexts == {<<>>, <<"A", "Q", "=", "=">>, <<"*">>}

\* The threads of the program, and a thread that is in no call.
Threads == {1, 2}
Idle == [prog |-> "none", pc |-> "idle", on |-> 0, arg |-> "",
         kind |-> "none", recv |-> 0, name |-> "",
         new |-> 0, h |-> 0, h2 |-> 0, key |-> "", bytes |-> <<>>, stack |-> <<>>,
         seen |-> {}, items |-> <<>>, err |-> "nil", val |-> NoValue]

NoCall == [op |-> "none"]
NotCalled == [called |-> FALSE]
NoWrite == [op |-> "none", val |-> NoValue]

InitDoc ==
    /\ docs = <<NewDocument("a")>>
    /\ colls = <<>>
    /\ ds = NewDatastore
    /\ disk = EmptyMap
    /\ res = NoCall
    /\ lastOp = [k \in Keys |-> NoWrite]
    /\ steps = 0
    /\ exts = 0
    /\ closed = NotCalled
    /\ opened = NotCalled
    /\ thr = [t \in Threads |-> Idle]
    /\ crashed = FALSE

DoSet(k, v) ==
    LET r == DocSet(docs[1], k, v)
    IN  /\ docs' = [docs EXCEPT ![1] = r.doc]
        /\ res' = [op |-> "Set", key |-> k, value |-> v, err |-> r.err]
        /\ lastOp' = IF r.err = "nil" THEN [lastOp EXCEPT ![k] = [op |-> "set", val |-> v]]
                      ELSE lastOp
        /\ UNCHANGED <<colls, ds, disk, diskVars, raceVars>>

DoRawSet(k, b) ==
    /\ docs' = [docs EXCEPT ![1] = DocRawSet(docs[1], k, b)]
    /\ res' = [op |-> "RawSet", key |-> k, bytes |-> b]
    /\ lastOp' = [lastOp EXCEPT ![k] =
                     [op |-> IF Len(b) = 0 THEN "rawset_empty" ELSE "rawset", val |-> NoValue]]
    /\ UNCHANGED <<colls, ds, disk, diskVars, raceVars>>

DoDelete(k) ==
    /\ docs' = [docs EXCEPT ![1] = DocDelete(docs[1], k)]
    /\ res' = [op |-> "Delete", key |-> k]
    /\ lastOp' = [lastOp EXCEPT ![k] = [op |-> "delete", val |-> NoValue]]
    /\ UNCHANGED <<colls, ds, disk, diskVars, raceVars>>

\* One file of the document's directory read in by Open.
DoLoadFile(k, text) ==
    LET r == DocLoadFile(docs[1], k, text)
    IN  /\ docs' = [docs EXCEPT ![1] = r.doc]
        /\ res' = [op |-> "LoadFile", key |-> k, text |-> text, err |-> r.err]
        /\ lastOp' = IF r.err # "nil" THEN lastOp
                      ELSE [lastOp EXCEPT ![k] =
                              [op |-> IF Len(r.doc.data[k]) = 0 THEN "rawset_empty" ELSE "rawset",
                               val |-> NoValue]]
        /\ UNCHANGED <<colls, ds, disk, diskVars, raceVars>>

DoGet(k) ==
    /\ res' = [op |-> "Get", key |-> k, item |-> DocGet(docs[1], k),
               isField |-> k \in DOMAIN docs[1].data, last |-> lastOp[k]]
    /\ UNCHANGED <<docs, colls, ds, disk, lastOp, diskVars, raceVars>>

DoGetAll ==
    \E order \in Orders(DOMAIN docs[1].data) :
        /\ res' = [op |-> "GetAll", fields |-> docs[1].data,
                   items |-> DocGetAll(docs[1], order)]
        /\ UNCHANGED <<docs, colls, ds, disk, lastOp, diskVars, raceVars>>

\* d.Get(k).Decode(target)
DoGetDecode(k, target) ==
    LET i == DocGet(docs[1], k)
        r == ItemDecode(i, target)
    IN  /\ res' = [op |-> "Decode", key |-> k, item |-> i, target |-> target,
                   err |-> r.err, out |-> r.out, last |-> lastOp[k]]
        /\ UNCHANGED <<docs, colls, ds, disk, lastOp, diskVars, raceVars>>

\* Item{}.Decode(target)
DoDecodeFresh(target) ==
    LET r == ItemDecode(ZeroItem, target)
    IN  /\ res' = [op |-> "Decode", key |-> "", item |-> ZeroItem, target |-> target,
                   err |-> r.err, out |-> r.out, last |-> NoWrite]
        /\ UNCHANGED <<docs, colls, ds, disk, lastOp, diskVars, raceVars>>

\* The values that def() returns in the calls of the two helpers.
Defaults == {IntVal(30), StringVal(<<104, 105>>)}

DoGetWithDefault(k, def) ==
    /\ res' = [op |-> "GetWithDefault", key |-> k, def |-> def,
               v |-> GetWithDefault(docs[1], k, def), last |-> lastOp[k]]
    /\ UNCHANGED <<docs, colls, ds, disk, lastOp, diskVars, raceVars>>

\* GetSetWithDefault is not one step: between its Get and its Set the
\* Document's lock is free and def() runs, so any other call on the
\* Document may come in between.  Thread 1 is the caller: at pc "def" it
\* has found the field empty and has its Set still to make.
DoGetSetWithDefault(k, def) ==
    LET r == GetSetWithDefaultGet(docs[1], k, def)
    IN  /\ thr[1].pc = "idle"
        /\ thr' = IF r.empty
                  THEN [thr EXCEPT ![1] = [Idle EXCEPT !.prog = "GetSetWithDefault",
                                              !.pc = "def", !.key = k, !.val = def]]
                  ELSE thr
        /\ res' = IF r.empty THEN [op |-> "GetSetWithDefaultGet", key |-> k, def |-> def]
                  ELSE [op |-> "GetSetWithDefault", key |-> k, def |-> def,
                        v |-> r.v, err |-> r.err, set |-> FALSE]
        /\ UNCHANGED <<docs, colls, ds, disk, lastOp, diskVars, crashed>>

DoGetSetWithDefaultSet ==
    LET k == thr[1].key
        r == GetSetWithDefaultSet(docs[1], k, thr[1].val)
    IN  /\ thr[1].pc = "def"
        /\ docs' = [docs EXCEPT ![1] = r.doc]
        /\ res' = [op |-> "GetSetWithDefault", key |-> k, def |-> thr[1].val,
                   v |-> r.v, err |-> r.err, set |-> TRUE]
        /\ lastOp' = IF r.err = "nil"
                      THEN [lastOp EXCEPT ![k] = [op |-> "set", val |-> thr[1].val]]
                      ELSE lastOp
        /\ thr' = [thr EXCEPT ![1] = Idle]
        /\ UNCHANGED <<colls, ds, disk, diskVars, crashed>>

NextDoc ==
    \/ \E k \in Keys, def \in Defaults : DoGetWithDefault(k, def)
    \/ \E k \in Keys, def \in Defaults : DoGetSetWithDefault(k, def)
    \/ DoGetSetWithDefaultSet
    \/ \E k \in Keys, v \in Values : DoSet(k, v)
    \/ \E k \in Keys, b \in RawBytes : DoRawSet(k, b)
    \/ \E k \in Keys : DoDelete(k)
    \/ \E k \in Keys, text \in FileTexts : DoLoadFile(k, text)
    \/ \E k \in Keys : DoGet(k)
    \/ DoGetAll
    \/ \E k \in Keys, t \in Targets : DoGetDecode(k, t)
    \/ \E t \in Targets : DoDecodeFresh(t)

SpecDoc == InitDoc /\ [][NextDoc]_vars

----------------------------------------------------------------------------
(* Claims about Item and Document, checked under SpecDoc.                  *)

ItemsOf(m) == {[Key |-> k, Value |-> m[k]] : k \in DOMAIN m}

\* C7: GetAll on a document of n fields returns exactly n Items, one per
\* field with the field's key and bytes, and no other Item.
C7_GetAllIsSnapshot ==
    res.op = "GetAll" =>
        /\ Len(res.items) = MapLen(res.fields)
        /\ {res.items[i] : i \in 1..Len(res.items)} = ItemsOf(res.fields)

\* C8: while the last write to key k is a Set(k, v) that returned no error,
\* Get(k) returns an Item of key k that decodes, into a pointer of v's
\* type, to v; writes to other keys do not change that.
C8_SetGetDecode ==
    \A k \in Keys :
        lastOp[k].op = "set" =>
            LET i == DocGet(docs[1], k)
                r == ItemDecode(i, Ptr(lastOp[k].val.type))
            IN  /\ i.Key = k
                /\ r.err = "nil"
                /\ r.out = lastOp[k].val

\* C8 happens: key "a" decodes to the 300 set last while key "b" holds a
\* string set through the same document.
C8_Witness ==
    /\ res.op = "Decode" /\ res.key = "a" /\ res.err = "nil"
    /\ res.out = IntVal(300)
    /\ lastOp["b"] = [op |-> "set", val |-> StringVal(<<104, 105>>)]

\* C9 as written: the Item that Get(k) returns has an empty value exactly
\* when k is not a field of the document.
C9_EmptyIffNotAField ==
    res.op = "Get" => (Len(res.item.Value) = 0 <=> ~res.isField)

\* C9 amended: the Item that Get(k) returns has an empty value exactly when
\* k is not a field (never written, or deleted) or the last write to k was
\* a RawSet of empty bytes (as Open does for an empty file).
C9_EmptyIffNotAFieldOrStoredEmpty ==
    res.op = "Get" =>
        /\ Len(res.item.Value) = 0 <=> res.last.op \in {"none", "delete", "rawset_empty"}
        /\ ~res.isField <=> res.last.op \in {"none", "delete"}

\* C9 happens: Get on a key that is a field holding empty bytes.
C9_Witness ==
    /\ res.op = "Get" /\ res.isField /\ res.last.op = "rawset_empty"
    /\ res.item = [Key |-> res.key, Value |-> <<>>]

\* C10: Decode with a nil or non-pointer target fails with InvalidDecode
\* whatever the Item holds; with a pointer to a variable it fails with
\* EmptyItem exactly when the Item's bytes are empty.
C10_DecodeErrors ==
    res.op = "Decode" =>
        /\ res.target.kind # "ptr" => res.err = "InvalidDecode"
        /\ res.target.kind = "ptr" => (res.err = "EmptyItem" <=> Len(res.item.Value) = 0)

\* C10 happens: a non-pointer target on an Item that holds bytes.
C10_Witness ==
    /\ res.op = "Decode" /\ res.target.kind = "nonptr"
    /\ Len(res.item.Value) > 0 /\ res.err = "InvalidDecode"

----------------------------------------------------------------------------
(* A program that builds a tree through the accessors, flushes it with     *)
(* Close and loads it with Open, while the directory may also be changed   *)
(* from outside the program.                                               *)

MaxSteps == 5
MaxExts == 3
MaxDepth == 3

RECURSIVE PathsOfLen(_)
PathsOfLen(n) == IF n = 0 THEN {<<>>}
                 ELSE {Append(p, x) : p \in PathsOfLen(n - 1), x \in Names}
Paths == UNION {PathsOfLen(n) : n \in 0..MaxDepth}

\* The texts of the files that appear from outside: the base64 text of a
\* byte, one that is no base64 text.
ExtTexts == {<<"A", "Q", "=", "=">>, <<"*">>}

\* The bytes the program stores with RawSet: none, one byte.
FieldBytes == {<<>>, <<1>>}

State == [ds |-> ds, colls |-> colls, docs |-> docs]

\* The tree below a Collection: the names of its documents with their
\* fields, the names of its collections with their trees.
RECURSIVE CollTree(_, _)
CollTree(st, c) ==
    [documents |-> [n \in DOMAIN st.colls[c].documents |->
                       st.docs[st.colls[c].documents[n]].data],
     collections |-> [n \in DOMAIN st.colls[c].collections |->
                         CollTree(st, st.colls[c].collections[n])]]
TreeOf(st) == [n \in DOMAIN st.ds.collections |-> CollTree(st, st.ds.collections[n])]

Init ==
    /\ docs = <<>>
    /\ colls = <<>>
    /\ ds = NewDatastore
    /\ disk = EmptyMap
    /\ res = NoCall
    /\ lastOp = [k \in Keys |-> NoWrite]
    /\ steps = 0
    /\ exts = 0
    /\ closed = NotCalled
    /\ opened = NotCalled
    /\ thr = [t \in Threads |-> Idle]
    /\ crashed = FALSE

Install(st) ==
    /\ ds' = st.ds
    /\ colls' = st.colls
    /\ docs' = st.docs

\* closed and opened describe the call that has just returned: any other
\* step forgets them.
Forget ==
    /\ closed' = NotCalled
    /\ opened' = NotCalled

Step ==
    /\ steps < MaxSteps
    /\ steps' = steps + 1
    /\ exts' = exts

ExtStep ==
    /\ steps < MaxSteps
    /\ exts < MaxExts
    /\ steps' = steps + 1
    /\ exts' = exts + 1

CallDSCollection(n) ==
    LET r == DSCollection(State, n)
    IN  /\ Step
        /\ Install(r.st)
        /\ Forget
        /\ UNCHANGED <<disk, docVars, raceVars>>

CallCollCollection(c, n) ==
    LET r == CollCollection(State, c, n)
    IN  /\ Step
        /\ Install(r.st)
        /\ Forget
        /\ UNCHANGED <<disk, docVars, raceVars>>

CallCollDocument(c, n) ==
    LET r == CollDocument(State, c, n)
    IN  /\ Step
        /\ Install(r.st)
        /\ Forget
        /\ UNCHANGED <<disk, docVars, raceVars>>

CallDocRawSet(d, k, b) ==
    /\ Step
    /\ docs' = [docs EXCEPT ![d] = DocRawSet(docs[d], k, b)]
    /\ Forget
    /\ UNCHANGED <<colls, ds, disk, docVars, raceVars>>

CallDocSet(d, k, v) ==
    /\ Step
    /\ docs' = [docs EXCEPT ![d] = DocSet(docs[d], k, v).doc]
    /\ Forget
    /\ UNCHANGED <<colls, ds, disk, docVars, raceVars>>

\* Whether a disk holds nothing under the datastore's directory.
NothingBelowRoot(fs) == DOMAIN fs \subseteq {<<>>}

CallClose ==
    \E r \in Close(State, disk) :
        /\ Step
        /\ disk' = r.fs
        /\ closed' = [called |-> TRUE, err |-> r.err, before |-> disk]
        /\ opened' = NotCalled
        /\ UNCHANGED <<docs, colls, ds, docVars, raceVars>>

\* Open replaces the program's Datastore by the one it returns.  When it
\* follows a Close that returned no error and found nothing below the
\* datastore's directory, flushed is the tree that Close wrote.
CallOpen ==
    LET r == Open(disk)
        afterClose == closed.called /\ closed.err = "nil" /\ NothingBelowRoot(closed.before)
    IN  /\ Step
        /\ Install(r.st)
        /\ disk' = r.fs
        /\ opened' = [called |-> TRUE, err |-> r.err, disk |-> disk,
                      afterClose |-> afterClose,
                      flushed |-> IF afterClose THEN TreeOf(State) ELSE EmptyMap]
        /\ closed' = NotCalled
        /\ UNCHANGED <<docVars, raceVars>>

\* Something else changes the directory: a directory or a file appears.
ExtMkdirAll(p) ==
    LET r == MkdirAll(disk, p)
    IN  /\ ExtStep
        /\ p \notin DOMAIN disk
        /\ r.err = "nil"
        /\ disk' = r.fs
        /\ Forget
        /\ UNCHANGED <<docs, colls, ds, docVars, raceVars>>

ExtWriteFile(p, text) ==
    LET r == IF p = <<>> /\ disk = EmptyMap
             THEN [fs |-> [q \in {<<>>} |-> File(text)], err |-> "nil"]
             ELSE WriteFile(disk, p, text)
    IN  /\ ExtStep
        /\ r.err = "nil"
        /\ r.fs # disk
        /\ disk' = r.fs
        /\ Forget
        /\ UNCHANGED <<docs, colls, ds, docVars, raceVars>>

Next ==
    \/ \E n \in Names : CallDSCollection(n)
    \/ \E c \in 1..Len(colls), n \in Names : CallCollCollection(c, n)
    \/ \E c \in 1..Len(colls), n \in Names : CallCollDocument(c, n)
    \/ \E d \in 1..Len(docs), k \in Keys, b \in FieldBytes : CallDocRawSet(d, k, b)
    \/ \E d \in 1..Len(docs), k \in Keys : CallDocSet(d, k, IntVal(30))
    \/ CallClose
    \/ CallOpen
    \/ \E p \in Paths : ExtMkdirAll(p)
    \/ \E p \in Paths, text \in ExtTexts : ExtWriteFile(p, text)

Spec == Init /\ [][Next]_vars

----------------------------------------------------------------------------
(* Threads that call into one Datastore at the same time.  Every           *)
(* threadsafe.Map has a lock: Get and Len run under it in one step, Set    *)
(* and Delete take it in one step and write and release it in the next.    *)
(* The ranges over a map's Data field (GetAll, Close) take no lock.        *)

DSMap == <<"ds", 0, "collections">>
CollDocs(c) == <<"coll", c, "documents">>
CollColls(c) == <<"coll", c, "collections">>
DocData(d) == <<"doc", d, "data">>

\* The map that a get-or-create accessor reads and writes.
AccessorMap(kind, recv) ==
    CASE kind = "DSCollection" -> DSMap
      [] kind = "CollCollection" -> CollColls(recv)
      [] kind = "CollDocument" -> CollDocs(recv)

MapContent(m) ==
    CASE m = DSMap -> ds.collections
      [] m[1] = "coll" /\ m[3] = "documents" -> colls[m[2]].documents
      [] m[1] = "coll" /\ m[3] = "collections" -> colls[m[2]].collections
      [] m[1] = "doc" -> docs[m[2]].data

\* A thread between the two steps of a Set or Delete holds the map's lock.
Holding(t) == thr[t].pc \in {"storing", "writing"}
WriteMap(t) == IF thr[t].pc = "storing" THEN AccessorMap(thr[t].kind, thr[t].recv)
               ELSE DocData(thr[t].recv)
Locked(m) == \E t \in Threads : Holding(t) /\ WriteMap(t) = m

\* The maps over whose Data a thread has a range in progress.
FrameMap(f) ==
    CASE f.kind = "ds" -> DSMap
      [] f.kind = "docs" -> CollDocs(f.obj)
      [] f.kind = "colls" -> CollColls(f.obj)
      [] f.kind = "fields" -> DocData(f.obj)
Ranging(t) ==
    IF thr[t].pc = "iter" THEN {DocData(thr[t].recv)}
    ELSE {FrameMap(thr[t].stack[i]) : i \in 1..Len(thr[t].stack)}

\* A range of t over a map that another thread is writing.
Racing(t) == \E u \in Threads \ {t} : Holding(u) /\ WriteMap(u) \in Ranging(t)

\* What is at the datastore's path when the threads start: nothing, or a
\* directory that holds a plain file.
RaceDisks == {EmptyMap, [p \in {<<>>, <<"a">>} |-> IF p = <<>> THEN Dir ELSE File(<<"*">>)]}

InitRace ==
    /\ docs = <<[Name |-> "a", data |-> [k \in {"a"} |-> <<1>>]]>>
    /\ colls = <<[name |-> "a", documents |-> [n \in {"a"} |-> 1], collections |-> EmptyMap]>>
    /\ ds = [collections |-> [n \in {"a"} |-> 1]]
    /\ disk \in RaceDisks
    /\ res = NoCall
    /\ lastOp = [k \in Keys |-> NoWrite]
    /\ steps = 0
    /\ exts = 0
    /\ closed = NotCalled
    /\ opened = NotCalled
    /\ thr = [t \in Threads |-> Idle]
    /\ crashed = FALSE

NoRace == UNCHANGED <<docVars, diskVars, crashed>>

\* Thread t calls c.Document(n) and then RawSet on the Document returned.
StartDocument(t, c, n) ==
    /\ ~crashed /\ thr[t].pc = "idle"
    /\ thr' = [thr EXCEPT ![t] = [Idle EXCEPT !.prog = "Document", !.pc = "get",
                   !.on = c, !.arg = n,
                   !.kind = "CollDocument", !.recv = c, !.name = n,
                   !.key = NameOrder[t], !.bytes = <<t>>]]
    /\ UNCHANGED <<docs, colls, ds, disk>> /\ NoRace

\* Thread t calls Collection(n) on the Datastore (recv 0) or on a Collection
\* and then Document on the Collection returned.
StartCollection(t, recv, n) ==
    /\ ~crashed /\ thr[t].pc = "idle"
    /\ thr' = [thr EXCEPT ![t] = [Idle EXCEPT !.prog = "Collection", !.pc = "get",
                   !.on = recv, !.arg = n,
                   !.kind = IF recv = 0 THEN "DSCollection" ELSE "CollCollection",
                   !.recv = recv, !.name = n]]
    /\ UNCHANGED <<docs, colls, ds, disk>> /\ NoRace

\* Thread t calls RawSet or Delete on a Document.
StartWrite(t, prog, d, k, b) ==
    /\ ~crashed /\ thr[t].pc = "idle"
    /\ thr' = [thr EXCEPT ![t] = [Idle EXCEPT !.prog = prog, !.pc = "write",
                   !.recv = d, !.key = k, !.bytes = b]]
    /\ UNCHANGED <<docs, colls, ds, disk>> /\ NoRace

StartGetAll(t, d) ==
    /\ ~crashed /\ thr[t].pc = "idle"
    /\ thr' = [thr EXCEPT ![t] = [Idle EXCEPT !.prog = "GetAll", !.pc = "len", !.recv = d]]
    /\ UNCHANGED <<docs, colls, ds, disk>> /\ NoRace

StartClose(t) ==
    /\ ~crashed /\ thr[t].pc = "idle"
    /\ thr' = [thr EXCEPT ![t] = [Idle EXCEPT !.prog = "Close", !.pc = "lock"]]
    /\ UNCHANGED <<docs, colls, ds, disk>> /\ NoRace

\* A get-or-create accessor returns id to thread t, which goes on with the
\* next call of its program.
Returned(r, t, id) ==
    IF r.prog = "Document"
    THEN [r EXCEPT !.h = id, !.pc = "write", !.recv = id]
    ELSE IF r.kind # "CollDocument"
    THEN [r EXCEPT !.h = id, !.pc = "get", !.kind = "CollDocument", !.recv = id,
                   !.name = NameOrder[t]]
    ELSE [r EXCEPT !.h2 = id, !.pc = "done"]

\* Lines 67, 77 of collection.go, 31 of part_000: Get under the map's lock.
AccessorGet(t) ==
    LET m == AccessorMap(thr[t].kind, thr[t].recv)
        r == MapGet(MapContent(m), thr[t].name)
    IN  /\ ~crashed /\ thr[t].pc = "get"
        /\ ~Locked(m)
        /\ thr' = [thr EXCEPT ![t] = IF r.ok THEN Returned(@, t, r.val)
                                      ELSE [@ EXCEPT !.pc = "create"]]
        /\ UNCHANGED <<docs, colls, ds, disk>> /\ NoRace

\* Lines 69, 79 of collection.go, 33 of part_000: the new object, and Set
\* taking the map's lock.
AccessorCreate(t) ==
    LET m == AccessorMap(thr[t].kind, thr[t].recv)
        isDoc == thr[t].kind = "CollDocument"
    IN  /\ ~crashed /\ thr[t].pc = "create"
        /\ ~Locked(m)
        /\ docs' = IF isDoc THEN Append(docs, NewDocument(thr[t].name)) ELSE docs
        /\ colls' = IF isDoc THEN colls ELSE Append(colls, newCollection(thr[t].name))
        /\ thr' = [thr EXCEPT ![t] = [@ EXCEPT !.pc = "storing",
                       !.new = IF isDoc THEN Len(docs) + 1 ELSE Len(colls) + 1]]
        /\ UNCHANGED <<ds, disk>> /\ NoRace

\* Lines 70, 80 of collection.go, 34 of part_000: Set writes the entry and
\* releases the lock; the accessor returns the new object.
AccessorStore(t) ==
    LET r == thr[t]
    IN  /\ ~crashed /\ r.pc = "storing"
        /\ ds' = IF r.kind = "DSCollection"
                  THEN [ds EXCEPT !.collections = MapSet(@, r.name, r.new)] ELSE ds
        /\ colls' = CASE r.kind = "CollCollection" ->
                            [colls EXCEPT ![r.recv].collections = MapSet(@, r.name, r.new)]
                       [] r.kind = "CollDocument" ->
                            [colls EXCEPT ![r.recv].documents = MapSet(@, r.name, r.new)]
                       [] OTHER -> colls
        /\ thr' = [thr EXCEPT ![t] = Returned(@, t, r.new)]
        /\ UNCHANGED <<docs, disk>> /\ NoRace

\* Document.RawSet, Document.Delete: the map's Set or Delete takes the lock.
WriteBegin(t) ==
    /\ ~crashed /\ thr[t].pc = "write"
    /\ ~Locked(DocData(thr[t].recv))
    /\ thr' = [thr EXCEPT ![t].pc = "writing"]
    /\ UNCHANGED <<docs, colls, ds, disk>> /\ NoRace

\* The entry is written or removed and the lock released.
WriteEnd(t) ==
    LET r == thr[t]
    IN  /\ ~crashed /\ r.pc = "writing"
        /\ docs' = [docs EXCEPT ![r.recv] = IF r.prog = "Delete" THEN DocDelete(@, r.key)
                                             ELSE DocRawSet(@, r.key, r.bytes)]
        /\ thr' = [thr EXCEPT ![t].pc = "done"]
        /\ UNCHANGED <<colls, ds, disk>> /\ NoRace

\* Document.GetAll, line 67: make([]Item, d.data.Len()), Len under the lock.
GetAllLen(t) ==
    /\ ~crashed /\ thr[t].pc = "len"
    /\ ~Locked(DocData(thr[t].recv))
    /\ thr' = [thr EXCEPT ![t] = [@ EXCEPT !.pc = "iter", !.seen = {},
                   !.items = [i \in 1..MapLen(docs[thr[t].recv].data) |-> ZeroItem]]]
    /\ UNCHANGED <<docs, colls, ds, disk>> /\ NoRace

\* Document.GetAll, lines 68-72: one pass of the range over d.data.Data, or
\* its end and the return.
GetAllRange(t) ==
    LET data == docs[thr[t].recv].data
        todo == (DOMAIN data) \ thr[t].seen
    IN  /\ ~crashed /\ thr[t].pc = "iter"
        /\ IF todo = {} THEN thr' = [thr EXCEPT ![t].pc = "done"]
           ELSE \E k \in todo :
                    thr' = [thr EXCEPT ![t] = [@ EXCEPT !.seen = @ \cup {k},
                               !.items = Append(@, [Key |-> k, Value |-> data[k]])]]
        /\ UNCHANGED <<docs, colls, ds, disk>> /\ NoRace

\* Close made to go on without the Datastore's lock.
CloseLockNoWait(t) ==
    /\ ~crashed /\ thr[t].pc = "lock"
    /\ thr' = [thr EXCEPT ![t] = [@ EXCEPT !.pc = "flush",
                   !.stack = <<[kind |-> "ds", obj |-> 0, path |-> <<>>, seen |-> {}]>>]]
    /\ UNCHANGED <<docs, colls, ds, disk>> /\ NoRace

\* Datastore.Close, line 147: d.lock.Lock(), then the range over the
\* top-level Collections begins.
CloseLock(t) ==
    /\ ~crashed /\ thr[t].pc = "lock"
    /\ \A u \in Threads : thr[u].pc # "flush"
    /\ thr' = [thr EXCEPT ![t] = [@ EXCEPT !.pc = "flush",
                   !.stack = <<[kind |-> "ds", obj |-> 0, path |-> <<>>, seen |-> {}]>>]]
    /\ UNCHANGED <<docs, colls, ds, disk>> /\ NoRace

\* Close returns: the lock is released.
CloseReturn(r, err) == [r EXCEPT !.pc = "done", !.stack = <<>>, !.err = err]

\* One pass of the innermost range of Close, or the end of that range.  A
\* frame of the stack is a range in progress: over the Datastore's
\* Collections (line 183), a Collection's documents (160), a Document's
\* fields (165), a Collection's collections (173).
CloseStep(t) ==
    LET r == thr[t]
        n == Len(r.stack)
        f == r.stack[n]
        todo == (DOMAIN MapContent(FrameMap(f))) \ f.seen
        pop == SubSeq(r.stack, 1, n - 1)
        \* flushCollection(name, c) begins: its directory, then its documents.
        Enter(name, c, path) ==
            LET m == MkdirAll(disk, path)
            IN  /\ disk' = m.fs
                /\ thr' = [thr EXCEPT ![t] =
                      IF m.err # "nil" THEN CloseReturn(r, m.err)
                      ELSE [r EXCEPT !.stack = Append([r.stack EXCEPT ![n].seen = @ \cup {name}],
                                [kind |-> "docs", obj |-> c, path |-> path, seen |-> {}])]]
    IN  /\ ~crashed /\ r.pc = "flush"
        /\ CASE f.kind = "ds" ->
                   IF todo = {} THEN /\ thr' = [thr EXCEPT ![t] = CloseReturn(r, "nil")]
                                     /\ disk' = disk
                   ELSE \E name \in todo : Enter(name, ds.collections[name], <<name>>)
             [] f.kind = "docs" ->
                   IF todo = {}
                   THEN /\ thr' = [thr EXCEPT ![t].stack[n] = [f EXCEPT !.kind = "colls", !.seen = {}]]
                        /\ disk' = disk
                   ELSE \E name \in todo :
                        LET documentPath == Append(f.path, name)
                            m == MkdirAll(disk, documentPath)
                        IN  /\ disk' = m.fs
                            /\ thr' = [thr EXCEPT ![t] =
                                  IF m.err # "nil" THEN CloseReturn(r, m.err)
                                  ELSE [r EXCEPT !.stack =
                                          Append([r.stack EXCEPT ![n].seen = @ \cup {name}],
                                                 [kind |-> "fields",
                                                  obj |-> colls[f.obj].documents[name],
                                                  path |-> documentPath, seen |-> {}])]]
             [] f.kind = "fields" ->
                   IF todo = {} THEN /\ thr' = [thr EXCEPT ![t].stack = pop]
                                     /\ disk' = disk
                   ELSE \E file \in todo :
                        LET w == WriteFile(disk, Append(f.path, file),
                                           B64Encode(docs[f.obj].data[file]))
                        IN  /\ disk' = w.fs
                            /\ thr' = [thr EXCEPT ![t] =
                                  IF w.err # "nil" THEN CloseReturn(r, w.err)
                                  ELSE [r EXCEPT !.stack[n].seen = @ \cup {file}]]
             [] f.kind = "colls" ->
                   IF todo = {} THEN /\ thr' = [thr EXCEPT ![t].stack = pop]
                                     /\ disk' = disk
                   ELSE \E name \in todo :
                        Enter(name, colls[f.obj].collections[name], Append(f.path, name))
        /\ UNCHANGED <<docs, colls, ds>> /\ NoRace

\* A range over a map that another thread is writing is a data race: the
\* pass may read the map as it was (GetAllRange, CloseStep), or the runtime
\* ends the process ("concurrent map iteration and map write").
Crash(t) ==
    /\ ~crashed /\ Racing(t)
    /\ crashed' = TRUE
    /\ UNCHANGED <<docs, colls, ds, disk, docVars, diskVars, thr>>

NextRace ==
    \E t \in Threads :
        \/ \E c \in 1..Len(colls), n \in Names : StartDocument(t, c, n)
        \/ \E recv \in 0..Len(colls), n \in Names : StartCollection(t, recv, n)
        \/ \E d \in 1..Len(docs), k \in Keys, b \in FieldBytes : StartWrite(t, "RawSet", d, k, b)
        \/ \E d \in 1..Len(docs), k \in Keys : StartWrite(t, "Delete", d, k, <<>>)
        \/ \E d \in 1..Len(docs) : StartGetAll(t, d)
        \/ StartClose(t)
        \/ AccessorGet(t)
        \/ AccessorCreate(t)
        \/ AccessorStore(t)
        \/ WriteBegin(t)
        \/ WriteEnd(t)
        \/ GetAllLen(t)
        \/ GetAllRange(t)
        \/ CloseLock(t)
        \/ CloseStep(t)
        \/ Crash(t)

SpecRace == InitRace /\ [][NextRace]_vars

\* A thread that can go on does: sync.Mutex hands the lock to a waiting
\* Lock once it is free, and a Close that holds it runs to its return.
SpecRaceFair ==
    SpecRace /\ \A t \in Threads : WF_vars(CloseLock(t)) /\ WF_vars(CloseStep(t))

----------------------------------------------------------------------------
(* Claims about concurrent callers, checked under SpecRace.                *)

Done(t, prog) == thr[t].prog = prog /\ thr[t].pc = "done"

\* The collections map of the receiver of Collection(n): the Datastore's
\* for 0, else the Collection's.
CollectionsOf(on) == IF on = 0 THEN ds.collections ELSE colls[on].collections

\* C4: two threads that call Document(n) on the same Collection get the
\* same Document, and the field each writes through it is afterwards in the
\* Document that the Collection's Get(n) returns.
C4_DocumentIsGetOrInsert ==
    \A t, u \in Threads :
        (t # u /\ Done(t, "Document") /\ Done(u, "Document")
         /\ thr[t].on = thr[u].on /\ thr[t].arg = thr[u].arg) =>
            LET g == MapGet(colls[thr[t].on].documents, thr[t].arg)
            IN  /\ thr[t].h = thr[u].h
                /\ g.ok
                /\ DocGet(docs[g.val], thr[t].key) = [Key |-> thr[t].key, Value |-> thr[t].bytes]

\* C5: two threads that call Collection(n) on the same Datastore or the
\* same Collection get the same Collection, and the Document each registers
\* under it is afterwards reachable from the parent.
C5_CollectionIsGetOrInsert ==
    \A t, u \in Threads :
        (t # u /\ Done(t, "Collection") /\ Done(u, "Collection")
         /\ thr[t].on = thr[u].on /\ thr[t].arg = thr[u].arg) =>
            LET g == MapGet(CollectionsOf(thr[t].on), thr[t].arg)
            IN  /\ thr[t].h = thr[u].h
                /\ g.ok
                /\ MapGet(colls[g.val].documents, thr[t].name) = [ok |-> TRUE, val |-> thr[t].h2]

\* C6: GetAll and Close never have a range over a map in progress while
\* another thread is in the middle of a Set or Delete on that map.
C6_NoUnsynchronizedRange == \A t \in Threads : ~Racing(t)

----------------------------------------------------------------------------
(* Claims about Close and Open (specification Spec).                       *)

\* C1: an Open that follows a successful Close of a tree built over a path
\* that held nothing returns no error and a Datastore whose tree has the
\* names and the field bytes of the tree that Close flushed.
C1_RoundTrip ==
    (opened.called /\ opened.afterClose) =>
        (opened.err = "nil" /\ TreeOf(State) = opened.flushed)

\* The Collection loaded for the directory p of the datastore, 0 when there
\* is none.
RECURSIVE CollAt(_, _)
CollAt(st, p) ==
    IF Len(p) = 1
    THEN MapGet(st.ds.collections, p[1]).val
    ELSE LET c == CollAt(st, Parent(p))
         IN  IF c = 0 THEN 0 ELSE MapGet(st.colls[c].collections, Base(p)).val

\* Whether the directory p is a child Collection or a Document of the
\* Collection of its parent directory.
Represented(st, p) ==
    IF Len(p) = 1
    THEN p[1] \in DOMAIN st.ds.collections
    ELSE LET c == CollAt(st, Parent(p))
         IN  /\ c # 0
             /\ \/ Base(p) \in DOMAIN st.colls[c].collections
                \/ Base(p) \in DOMAIN st.colls[c].documents

DirsBelowRoot(fs) == {p \in DOMAIN fs : Len(p) >= 1 /\ fs[p].kind = "dir"}

\* C2: after an Open that returned no error, every directory below the
\* root, at every depth, is in the tree as a child Collection or a Document
\* of the Collection of its parent directory.
C2_EveryDirectoryLoaded ==
    (opened.called /\ opened.err = "nil") =>
        \A p \in DirsBelowRoot(opened.disk) : Represented(State, p)

\* Whether some directory below the root holds a file and a directory.
HasMixedDir(fs) ==
    \E p \in DirsBelowRoot(fs) :
        /\ \E n \in Names : IsFile(fs, Append(p, n))
        /\ \E n \in Names : IsDir(fs, Append(p, n))

\* C3: Open returns InvalidPath whenever a directory below the root, at any
\* depth and in any position among its siblings, holds a file and a
\* directory.
C3_MixedDirIsInvalidPath ==
    (opened.called /\ HasMixedDir(opened.disk)) => opened.err = "InvalidPath"

\* The files that the fields of the tree below a Collection stand for: the
\* path of the Collection, the Document's name and the field's key, with the
\* bytes the field holds.
RECURSIVE CollFieldFiles(_, _, _)
CollFieldFiles(st, c, path) ==
    UNION {{[path |-> path \o <<d, k>>, bytes |-> st.docs[st.colls[c].documents[d]].data[k]] :
                k \in DOMAIN st.docs[st.colls[c].documents[d]].data} :
           d \in DOMAIN st.colls[c].documents}
    \cup UNION {CollFieldFiles(st, st.colls[c].collections[n], Append(path, n)) :
                n \in DOMAIN st.colls[c].collections}
FieldFiles(st) ==
    UNION {CollFieldFiles(st, st.ds.collections[n], <<n>>) : n \in DOMAIN st.ds.collections}
FieldPaths(st) == {f.path : f \in FieldFiles(st)}

\* The files of a filesystem that stand for no field of the tree.
StaleFiles(st, fs) == {p \in DOMAIN fs : fs[p].kind = "file" /\ p \notin FieldPaths(st)}

\* C11: Close removes nothing: whatever was under the datastore's path
\* before the call is there afterwards, a directory still a directory and a
\* file still a file, and a file that stands for no field of the tree holds
\* the text it held; also when Close returns an error.
C11_CloseIsAdditive ==
    closed.called =>
        /\ \A p \in DOMAIN closed.before :
               p \in DOMAIN disk /\ disk[p].kind = closed.before[p].kind
        /\ \A p \in StaleFiles(State, closed.before) : disk[p] = closed.before[p]

\* C11 happens: a Close that wrote something and then returned an error,
\* over a directory that held a file standing for no field.
C11_Witness ==
    /\ closed.called /\ closed.err # "nil"
    /\ disk # closed.before
    /\ StaleFiles(State, closed.before) # {}

\* C12: after a Close that returned no error, every field of every Document
\* of every Collection, nested or not, has its file under the path of the
\* Collection, the Document's name and the field's key, and the file holds
\* the base64 text of the field's bytes, whatever it held before.
C12_EveryFieldFlushed ==
    (closed.called /\ closed.err = "nil") =>
        \A f \in FieldFiles(State) :
            /\ f.path \in DOMAIN disk
            /\ disk[f.path] = File(B64Encode(f.bytes))

\* C12 happens: a Close that returned no error replaced the text of a file
\* that was there before.
C12_Witness ==
    /\ closed.called /\ closed.err = "nil"
    /\ \E f \in FieldFiles(State) :
           /\ IsFile(closed.before, f.path)
           /\ closed.before[f.path] # File(B64Encode(f.bytes))
           /\ disk[f.path] = File(B64Encode(f.bytes))

----------------------------------------------------------------------------
(* Claims about concurrent Close calls (specification SpecRaceFair).       *)

\* A thread is inside Close from the lock to the return: every filesystem
\* operation of Close is made there.
Flushing(t) == thr[t].pc = "flush"

\* C13: two Close calls on one Datastore are never inside their flush at
\* the same time, and a Close that waits for the lock gets it once the
\* holder has returned, with or without an error.
C13_CloseSerialized ==
    /\ [](\A t, u \in Threads : t # u => ~(Flushing(t) /\ Flushing(u)))
    /\ \A t \in Threads : (thr[t].pc = "lock") ~> Flushing(t)

\* C13 happens: a Close is inside its flush after another Close returned an
\* error.
C13_Witness ==
    \E t, u \in Threads :
        /\ t # u
        /\ thr[t].prog = "Close" /\ thr[t].pc = "done" /\ thr[t].err # "nil"
        /\ thr[u].prog = "Close" /\ Flushing(u)

----------------------------------------------------------------------------
(* Further claims about Open (specification Spec).  The filesystem fails   *)
(* an operation only for what is at the paths it names.                    *)

\* C14: Open of a path at which nothing exists returns no error and a
\* Datastore without Collections, and the path is a directory afterwards.
C14_OpenAbsentPath ==
    (opened.called /\ <<>> \notin DOMAIN opened.disk) =>
        /\ opened.err = "nil"
        /\ State = EmptyState
        /\ IsDir(disk, <<>>)

\* C14 happens: Open was called on an absent path and made the directory.
C14_Witness ==
    /\ opened.called /\ opened.disk = EmptyMap
    /\ opened.err = "nil" /\ ds.collections = EmptyMap
    /\ DOMAIN disk = {<<>>} /\ IsDir(disk, <<>>)

\* Whether the datastore's directory holds a plain file.
FileAtRoot(fs) == \E n \in Names : IsFile(fs, <<n>>)

\* C15 as written: Open returns InvalidPath when the path is a plain file
\* and when the datastore's directory holds a plain file, whatever its
\* position and whatever the other entries hold.
C15_FileAtRootIsInvalidPath ==
    (opened.called /\ (IsFile(opened.disk, <<>>) \/ FileAtRoot(opened.disk))) =>
        opened.err = "InvalidPath"

\* The error of loading the entry n of the datastore's directory on its own.
EntryErr(fs, n) ==
    IF ~IsDir(fs, <<n>>) THEN "InvalidPath"
    ELSE traverseCollection(DSCollection(EmptyState, n).st, fs, 1, 0, <<n>>).err

\* The entries of the datastore's directory that come before its first
\* plain file.
BeforeFirstFile(fs) ==
    LET entries == ReadDir(fs, <<>>)
        first == CHOOSE i \in 1..Len(entries) :
                     /\ IsFile(fs, <<entries[i]>>)
                     /\ \A j \in 1..(i - 1) : ~IsFile(fs, <<entries[j]>>)
    IN  {entries[j] : j \in 1..(first - 1)}

\* C15 amended: Open returns InvalidPath when the path is a plain file; when
\* the datastore's directory holds a plain file Open returns an error, which
\* is InvalidPath unless an entry that comes before the first plain file
\* fails to load, and then it is the error of such an entry.
C15_FileAtRootFails ==
    opened.called =>
        /\ IsFile(opened.disk, <<>>) => opened.err = "InvalidPath"
        /\ (IsDir(opened.disk, <<>>) /\ FileAtRoot(opened.disk)) =>
               LET errs == {EntryErr(opened.disk, n) : n \in BeforeFirstFile(opened.disk)}
               IN  /\ opened.err # "nil"
                   /\ errs \subseteq {"nil"} => opened.err = "InvalidPath"
                   /\ opened.err # "InvalidPath" => opened.err \in errs

\* C15 happens: the datastore's directory holds a plain file and Open
\* returns the error of an entry that comes before it.
C15_Witness ==
    /\ opened.called /\ IsDir(opened.disk, <<>>) /\ FileAtRoot(opened.disk)
    /\ opened.err \notin {"nil", "InvalidPath"}

----------------------------------------------------------------------------
(* The calls on one Collection: Collection 1 of the heap.  Documents are   *)
(* also written through the handles the program holds.                     *)

MaxDocs == 2
MaxColls == 2

\* Nothing is known of the calls made with a name.
NoHandle == [op |-> "none", val |-> [type |-> "handle", id |-> 0, added |-> 0, wrote |-> FALSE]]

InitColl ==
    /\ docs = <<>>
    /\ colls = <<newCollection("a")>>
    /\ ds = NewDatastore
    /\ disk = EmptyMap
    /\ res = NoCall
    /\ lastOp = [n \in Names |-> NoHandle]
    /\ steps = 0
    /\ exts = 0
    /\ closed = NotCalled
    /\ opened = NotCalled
    /\ thr = [t \in Threads |-> Idle]
    /\ crashed = FALSE

CollFrame == UNCHANGED <<ds, disk, diskVars, raceVars>>

\* c.Set(k, document), document a handle the program holds or nil.
CSet(k, document) ==
    LET r == CollSet(State, 1, k, document)
    IN  /\ Install(r.st)
        /\ res' = [op |-> "Set", key |-> k, document |-> document, err |-> r.err,
                   before |-> colls[1], found |-> CollGet(r.st, 1, k)]
        /\ lastOp' = IF r.err = "nil" THEN [lastOp EXCEPT ![k] = NoHandle] ELSE lastOp
        /\ CollFrame

CDelete(k) ==
    /\ Install(CollDelete(State, 1, k))
    /\ res' = [op |-> "Delete", key |-> k, before |-> colls[1]]
    /\ lastOp' = [lastOp EXCEPT ![k] = NoHandle]
    /\ CollFrame

CDeleteCollection(k) ==
    /\ Install(CollDeleteCollection(State, 1, k))
    /\ res' = [op |-> "DeleteCollection", key |-> k, before |-> colls[1]]
    /\ UNCHANGED lastOp
    /\ CollFrame

\* c.Document(n): lastOp remembers the handle returned, how many Documents
\* the calls with this name have added to c since the first of them, and
\* whether the Document was written through the handle since.
CDocument(n) ==
    LET r == CollDocument(State, 1, n)
        added == MapLen(r.st.colls[1].documents) - MapLen(colls[1].documents)
    IN  /\ n \in DOMAIN colls[1].documents \/ Len(docs) < MaxDocs
        /\ Install(r.st)
        /\ res' = [op |-> "Document", key |-> n, id |-> r.id, added |-> added,
                   before |-> colls[1], prev |-> lastOp[n]]
        /\ lastOp' = [lastOp EXCEPT ![n] =
                         [op |-> "Document",
                          val |-> [type |-> "handle", id |-> r.id, added |-> added,
                                   wrote |-> FALSE]]]
        /\ CollFrame

CCollection(n) ==
    LET r == CollCollection(State, 1, n)
    IN  /\ n \in DOMAIN colls[1].collections \/ Len(colls) < MaxColls
        /\ Install(r.st)
        /\ res' = [op |-> "Collection", key |-> n, id |-> r.id, before |-> colls[1]]
        /\ UNCHANGED lastOp
        /\ CollFrame

\* RawSet through a handle that the program got from c.Document.
CWrite(d, k, b) ==
    /\ docs' = [docs EXCEPT ![d] = DocRawSet(docs[d], k, b)]
    /\ res' = [op |-> "RawSet", id |-> d, key |-> k]
    /\ lastOp' = [n \in Names |->
                     IF lastOp[n].op = "Document" /\ lastOp[n].val.id = d
                     THEN [lastOp[n] EXCEPT !.val.wrote = TRUE] ELSE lastOp[n]]
    /\ UNCHANGED <<colls, ds>>
    /\ CollFrame

NextColl ==
    \/ \E k \in Names, document \in 0..Len(docs) : CSet(k, document)
    \/ \E k \in Names : CDelete(k)
    \/ \E k \in Names : CDeleteCollection(k)
    \/ \E n \in Names : CDocument(n)
    \/ \E n \in Names : CCollection(n)
    \/ \E d \in 1..Len(docs) : CWrite(d, "a", <<1>>)

SpecColl == InitColl /\ [][NextColl]_vars

\* C16: Set(k, nil) returns an error and leaves the Collection as it was:
\* Get(k) finds what it found before, and no other entry of the documents
\* or of the subcollections changes.
C16_SetNilRejected ==
    (res.op = "Set" /\ res.document = 0) =>
        /\ res.err # "nil"
        /\ res.found = MapGet(res.before.documents, res.key)
        /\ colls[1] = res.before

\* C16 happens: Set(k, nil) on a key under which a Document is registered.
C16_Witness ==
    /\ res.op = "Set" /\ res.document = 0 /\ res.err # "nil"
    /\ res.key \in DOMAIN res.before.documents
    /\ res.found.ok

\* C17: a call c.Document(x) that follows a call c.Document(x), with no
\* Delete(x) and no Set(x, ...) between the two, returns the handle the
\* first returned, so what was written through the first is read through
\* the second, and the two calls together add at most one Document to c.
C17_DocumentTwiceSameHandle ==
    (res.op = "Document" /\ res.prev.op = "Document") =>
        /\ res.id = res.prev.val.id
        /\ \A k \in Keys : DocGet(docs[res.id], k) = DocGet(docs[res.prev.val.id], k)
        /\ res.prev.val.added + res.added <= 1

\* C17 happens: the second Document(x) returns the Document that the first
\* call made and that was written through the first handle in between.
C17_Witness ==
    /\ res.op = "Document" /\ res.prev.op = "Document"
    /\ res.prev.val.added = 1 /\ res.prev.val.wrote
    /\ res.id = res.prev.val.id
    /\ DocGet(docs[res.id], "a") = [Key |-> "a", Value |-> <<1>>]

\* C20: Set, Delete and Document(name) leave the subcollections of the
\* Collection as they were, DeleteCollection and Collection(name) leave its
\* documents as they were; a name may be in both maps at once.
C20_MapsIndependent ==
    /\ res.op \in {"Set", "Delete", "Document"} =>
           colls[1].collections = res.before.collections
    /\ res.op \in {"DeleteCollection", "Collection"} =>
           colls[1].documents = res.before.documents

\* C20 happens: Delete(k) of a name registered in both maps removes the
\* Document and leaves the subcollection of that name.
C20_Witness ==
    /\ res.op = "Delete"
    /\ res.key \in DOMAIN res.before.documents
    /\ res.key \in DOMAIN res.before.collections
    /\ res.key \notin DOMAIN colls[1].documents
    /\ res.key \in DOMAIN colls[1].collections

----------------------------------------------------------------------------
(* Claims about the tree that Open returns (specification Spec).           *)

\* The names of the entries of a directory, and the directories below the
\* root whose entries are plain files, at least one.
EntriesOf(fs, p) == {n \in Names : Append(p, n) \in DOMAIN fs}
DocumentDirs(fs) ==
    {p \in DirsBelowRoot(fs) :
        /\ EntriesOf(fs, p) # {}
        /\ \A n \in EntriesOf(fs, p) : IsFile(fs, Append(p, n))}

\* C18: in the Datastore of an Open that returned no error no Collection
\* has a name both among its documents and among its collections, and every
\* directory whose entries are all plain files is, in the Collection of its
\* parent directory, a Document and no Collection, with one field per file
\* under the file's name.
C18_DocumentDirsAreDocuments ==
    (opened.called /\ opened.err = "nil") =>
        /\ \A c \in 1..Len(colls) :
               (DOMAIN colls[c].documents) \cap (DOMAIN colls[c].collections) = {}
        /\ \A p \in DocumentDirs(opened.disk) :
               LET c == IF Len(p) = 1 THEN 0 ELSE CollAt(State, Parent(p))
               IN  /\ c # 0
                   /\ Base(p) \in DOMAIN colls[c].documents
                   /\ Base(p) \notin DOMAIN colls[c].collections
                   /\ DOMAIN docs[colls[c].documents[Base(p)]].data = EntriesOf(opened.disk, p)

\* The part of a filesystem at and below the entry n of the datastore's
\* directory, with that directory.
OnlyEntry(fs, n) ==
    [q \in {q \in DOMAIN fs : q = <<>> \/ q[1] = n} |-> fs[q]]

\* The files of the directory p that were read before the first one whose
\* text is no base64 text.
ReadBeforeFailure(fs, p) ==
    LET files == ReadDir(fs, p)
        bad == {m \in 1..Len(files) : ~B64Decode(fs[Append(p, files[m])].text).ok}
    IN  {files[m] : m \in {m \in 1..Len(files) : \A b \in bad : m < b}}

\* The directories for which the tree holds a Document.
LoadedDocuments(st) ==
    {p \in Paths : /\ Len(p) >= 2
                   /\ CollAt(st, Parent(p)) # 0
                   /\ Base(p) \in DOMAIN st.colls[CollAt(st, Parent(p))].documents}
DocAt(st, p) == st.docs[st.colls[CollAt(st, Parent(p))].documents[Base(p)]]

\* C19: when Open returns an error for an entry of the datastore's
\* directory, the error is that of the first entry that fails, the Datastore
\* returned holds the entries before it as a load of each alone gives them,
\* the failing entry if it is a directory, and no later entry; a Document
\* holds the fields of the files read before the failure.
C19_FailFastLoad ==
    (opened.called /\ IsDir(opened.disk, <<>>) /\ opened.err # "nil") =>
        LET fs == opened.disk
            entries == ReadDir(fs, <<>>)
            i == CHOOSE i \in 1..Len(entries) :
                     /\ EntryErr(fs, entries[i]) # "nil"
                     /\ \A j \in 1..(i - 1) : EntryErr(fs, entries[j]) = "nil"
        IN  /\ opened.err = EntryErr(fs, entries[i])
            /\ DOMAIN ds.collections =
                   {entries[j] : j \in {j \in 1..i : IsDir(fs, <<entries[j]>>)}}
            /\ \A j \in 1..(i - 1) :
                   TreeOf(State)[entries[j]] =
                       TreeOf(Open(OnlyEntry(fs, entries[j])).st)[entries[j]]
            /\ \A p \in LoadedDocuments(State) :
                   DocAt(State, p).data =
                       [k \in ReadBeforeFailure(fs, p) |-> B64Decode(fs[Append(p, k)].text).bytes]

\* C19 happens: Open returns the error of a file that is no base64 text and
\* a Datastore whose Document holds the field of a file read before it.
C19_Witness ==
    /\ opened.called /\ opened.err = "base64"
    /\ \E p \in LoadedDocuments(State) :
           /\ DocAt(State, p).data # EmptyMap
           /\ DOMAIN DocAt(State, p).data # EntriesOf(opened.disk, p)

====
